---- MODULE Spec2Model ----
(***************************************************************************)
(* A model of advanced_crawler.py: web_crawler / bfs_crawl on the main     *)
(* thread, and the tree of fetch_url executions that each fetched page     *)
(* starts on a ThreadPoolExecutor of its own.                              *)
(*                                                                         *)
(* A URL is the sequence of its '/'-separated parts, so that               *)
(* "http://a.test/x" is <<"http:", "", "a.test", "x">>: url.split('/') is  *)
(* the URL itself and urlparse(url).netloc is its third part.              *)
(* The web (what driver.get loads for each URL) is an input of the run.    *)
(***************************************************************************)
EXTENDS Integers, Sequences, FiniteSets, TLC

VARIABLES
    args,          \* the arguments of web_crawler: start_urls, depth, domain_restriction, rate_limit
    web,           \* URL -> the page the browser renders for it (input, never changes)
    fails_left,    \* URL -> how many more times driver.get(url) raises
    visited_urls,  \* the global set of line 20
    save_results,  \* the list web_crawler hands to save_to_file
    queue,         \* the deque of bfs_crawl
    main,          \* the main thread: where bfs_crawl / web_crawler stands
    calls,         \* the fetch_url executions alive, by their place in the call tree
    driver,        \* the page loaded in the one global Firefox driver
    since,         \* host -> time since the last driver.get to it (saturating), -1: none yet
    ticking,       \* the clocks that run (since of a host, timer of a sleep), next to tick first
    fetched,       \* history: every driver.get call, in order
    saved          \* history: the data of every save_to_file call, in order

vars == <<args, web, fails_left, visited_urls, save_results, queue, main, calls,
          driver, since, ticking, fetched, saved>>

-----------------------------------------------------------------------------
(* Bounds of the model *)

MaxDepth == 3
MaxRate == 1
MaxRuns == 2

(* Program constants *)

max_workers == 10
DefaultDepth == 2

-----------------------------------------------------------------------------
(* URLs *)

Range(s) == {s[i] : i \in 1..Len(s)}

Front(s) == SubSeq(s, 1, Len(s) - 1)

Last(s) == s[Len(s)]

Min(a, b) == IF a < b THEN a ELSE b

NoURL == <<>>

U_A    == <<"http:", "", "a.test", "">>
U_AX   == <<"http:", "", "a.test", "x">>
U_AY   == <<"http:", "", "a.test", "y">>
U_TWO  == <<"http:", "", "a.test", "two">>
U_SH   == <<"http:", "", "a.test", "shared">>
U_P    == <<"http:", "", "a.test", "p">>
U_F    == <<"http:", "", "a.test", "f">>
U_NF   == <<"http:", "", "a.test", "nf">>
U_BY   == <<"http:", "", "b.test", "y">>
U_BC   == <<"http:", "", "b.test", "c">>
U_LOOP == <<"http:", "", "a.test", "loop", "loop", "loop", "">>
U_TRAP == <<"http:", "", "a.test", "t", "t", "t", "t", "t", "t">>
U_MAIL == <<"mailto:x@a.test">>

\* extract_domain reading the scheme of the URL in place of its netloc.
extract_domain_scheme(url) == url[1]

\* urlparse(url).netloc
extract_domain(url) ==
    IF Len(url) >= 3 /\ url[2] = "" THEN url[3] ELSE ""

is_same_domain(start_url, link_url) ==
    extract_domain(start_url) = extract_domain(link_url)

\* len(set(url.split('/'))) < len(url.split('/')) / 2
is_spider_trap(url) ==
    2 * Cardinality(Range(url)) < Len(url)

\* urljoin(url, href): an href with a scheme stands as it is, an href that
\* starts with '/' replaces the path of the base, any other href replaces the
\* last part of the base's path.
urljoin(base, href) ==
    IF href[1] \in {"http:", "https:", "mailto:x@a.test"} THEN href
    ELSE IF href[1] = "" THEN SubSeq(base, 1, 3) \o Tail(href)
    ELSE Front(base) \o href

\* full_url.startswith("http")
starts_with_http(url) ==
    Len(url) >= 1 /\ url[1] \in {"http:", "https:"}

-----------------------------------------------------------------------------
(* The web: the page the browser renders for each URL.  A page is what     *)
(* fetch_url reads from the soup: its <link rel="canonical"> (NoURL when   *)
(* it has none), its <a href> elements in document order, each with its    *)
(* rel value list (empty when the attribute is absent), and whether        *)
(* extract_content succeeds on it (a <meta name="description"> without a   *)
(* content attribute makes line 65 raise KeyError).                        *)

URLS == {U_A, U_AX, U_AY, U_TWO, U_SH, U_P, U_F, U_NF, U_BY, U_BC, U_LOOP, U_TRAP, U_MAIL}

HOSTS == {extract_domain(u) : u \in URLS}

Link(href) == [href |-> href, rel |-> <<>>]

LinkRel(href, rel) == [href |-> href, rel |-> rel]

Page(canonical, links) == [canonical |-> canonical, links |-> links, meta_ok |-> TRUE]

EmptyPage == Page(NoURL, <<>>)

\* Scenario A: a.test/ links to a.test/x and to b.test/y.
WebA == [u \in URLS |->
    IF u = U_A THEN Page(NoURL, <<Link(<<"x">>), Link(U_BY)>>) ELSE EmptyPage]

\* Scenario B: a.test/ links to a.test/loop/loop/loop/ and to a URL with six
\* repeated path components.
WebB == [u \in URLS |->
    IF u = U_A THEN Page(NoURL, <<Link(<<"", "loop", "loop", "loop", "">>), Link(U_TRAP)>>)
    ELSE EmptyPage]

\* Scenario C: two seeds, a.test/ and a.test/two, both link to a.test/shared.
WebC == [u \in URLS |->
    IF u \in {U_A, U_TWO} THEN Page(NoURL, <<Link(<<"", "shared">>)>>) ELSE EmptyPage]

\* A link listed twice, a link cycle, a nofollow link, a mailto link and a
\* page whose content extraction raises.
WebD == [u \in URLS |->
    CASE u = U_A  -> Page(NoURL, <<Link(U_AX), Link(U_AX),
                                   LinkRel(U_NF, <<"nofollow">>), Link(U_MAIL)>>)
      [] u = U_AX -> Page(NoURL, <<Link(U_A), Link(U_SH)>>)
      [] u = U_SH -> [canonical |-> NoURL, links |-> <<Link(U_AX)>>, meta_ok |-> FALSE]
      [] OTHER    -> EmptyPage]

\* A page with a canonical URL on another host that two seeds link to, and a
\* page whose fetch raises.
WebE == [u \in URLS |->
    CASE u = U_A   -> Page(NoURL, <<Link(U_P)>>)
      [] u = U_P   -> Page(U_BC, <<Link(<<"y">>), LinkRel(U_NF, <<"nofollow", "noopener">>)>>)
      [] u = U_TWO -> Page(NoURL, <<Link(U_P), Link(U_F)>>)
      [] u = U_F   -> Page(NoURL, <<Link(U_SH)>>)
      [] OTHER     -> EmptyPage]

\* Scenario D: a.test/ links to a.test/f, whose fetch raises twice before it
\* succeeds.
WebRetry == [u \in URLS |->
    CASE u = U_A -> Page(NoURL, <<Link(U_F)>>)
      [] u = U_F -> Page(NoURL, <<Link(U_SH)>>)
      [] OTHER   -> EmptyPage]

\* A page, a.test/y, that is linked from the seed and from another page the
\* seed links to: it is reached along a path of one link and along a path of
\* two.
WebH == [u \in URLS |->
    CASE u = U_A  -> Page(NoURL, <<Link(U_AX), Link(U_AY)>>)
      [] u = U_AX -> Page(NoURL, <<Link(U_AY)>>)
      [] u = U_AY -> Page(NoURL, <<Link(U_SH)>>)
      [] OTHER    -> EmptyPage]

NoFails == [u \in URLS |-> 0]

FailsRetry == [u \in URLS |-> IF u = U_F THEN 2 ELSE 0]

FailsE == [u \in URLS |-> IF u = U_F THEN 1 ELSE 0]

Args(start_urls, depth, domain_restriction, rate_limit) ==
    [start_urls |-> start_urls, depth |-> depth,
     domain_restriction |-> domain_restriction, rate_limit |-> rate_limit]

World(a, w, f) == [args |-> a, web |-> w, fails |-> f]

Worlds ==
    {World(Args(<<U_A>>, d, dr, r), w, NoFails) :
        d \in 0..MaxDepth, dr \in BOOLEAN, r \in 0..MaxRate, w \in {WebA, WebB}}
    \cup {World(Args(<<U_A, U_TWO>>, d, dr, r), WebC, NoFails) :
        d \in 0..MaxDepth, dr \in BOOLEAN, r \in 0..MaxRate}
    \cup {World(Args(<<U_A>>, d, dr, 0), WebD, NoFails) :
        d \in 1..MaxDepth, dr \in BOOLEAN}
    \cup {World(Args(<<U_A>>, DefaultDepth, FALSE, r), WebD, NoFails) :
        r \in 1..MaxRate}
    \cup {World(Args(<<U_A, U_TWO>>, d, dr, 0), WebE, FailsE) :
        d \in 1..MaxDepth, dr \in BOOLEAN}
    \cup {World(Args(<<U_A>>, d, FALSE, 0), WebRetry, FailsRetry) :
        d \in 1..MaxDepth}
    \cup {World(Args(<<U_A>>, d, FALSE, 0), WebH, NoFails) :
        d \in 1..MaxDepth}

-----------------------------------------------------------------------------
(* The state after web_crawler has built save_results (156) and bfs_crawl  *)
(* has built its queue from the seeds (141).  An entry of the queue is a   *)
(* depth with the set of URLs appended at that depth by one pass of lines  *)
(* 149-151: Python iterates the set visited_urls in an order the program   *)
(* does not control, so each pop takes any URL of the front entry.         *)

Seeds(start_urls) ==
    [i \in 1..Len(start_urls) |-> [urls |-> {start_urls[i]}, depth |-> 0]]

InitW(w) ==
    /\ args = w.args
    /\ web = w.web
    /\ fails_left = w.fails
    /\ visited_urls = {}
    /\ save_results = <<>>
    /\ queue = Seeds(w.args.start_urls)
    /\ main = [pc |-> "pop", url |-> NoURL, current_depth |-> 0]
    /\ calls = <<>>
    /\ driver = NoURL
    /\ since = [h \in HOSTS |-> -1]
    /\ ticking = <<>>
    /\ fetched = <<>>
    /\ saved = <<>>

Init == \E w \in Worlds : InitW(w)

-----------------------------------------------------------------------------
(* bfs_crawl and web_crawler, on the main thread *)

\* The fetch_url execution bfs_crawl calls (147); the executions it starts in
\* turn are named by their place below it: Append(c, k) is the k-th task
\* that execution c hands to its executor.
Root == <<1>>

\* level is history: the depth of the queue entry for the call of line 147 (0
\* for a seed), the parent's level + 1 for a followed link.  anchor is the
\* place of the loop of line 112 in the anchors of the page, links the list
\* of line 111.
Call(url, depth, level) ==
    [url |-> url, depth |-> depth, level |-> level, pc |-> "start", soup |-> NoURL,
     anchor |-> 0, links |-> <<>>, timer |-> 0]

\* bfs_crawl reading queue[0] where it should popleft: a skipped entry stays.
BfsPopPeek ==
    /\ main.pc = "pop"
    /\ queue # <<>>
    /\ \E url \in Head(queue).urls :
        LET current_depth == Head(queue).depth
            rest == Head(queue).urls \ {url}
        IN  IF current_depth >= args.depth \/ url \in visited_urls
            THEN UNCHANGED <<main, calls, queue>>
            ELSE /\ queue' = IF rest = {} THEN Tail(queue)
                             ELSE <<[urls |-> rest, depth |-> current_depth]>> \o Tail(queue)
                 /\ main' = [pc |-> "fetch", url |-> url, current_depth |-> current_depth]
                 /\ calls' = (Root :> Call(url, args.depth - current_depth, current_depth)) @@ calls
    /\ UNCHANGED <<ticking, saved, args, web, fails_left, visited_urls, save_results, driver, since, fetched>>

\* Lines 142-147: pop an entry; skip it, or call fetch_url on it.
BfsPop ==
    /\ main.pc = "pop"
    /\ queue # <<>>
    /\ \E url \in Head(queue).urls :
        LET current_depth == Head(queue).depth
            rest == Head(queue).urls \ {url}
        IN  /\ queue' = IF rest = {} THEN Tail(queue)
                        ELSE <<[urls |-> rest, depth |-> current_depth]>> \o Tail(queue)
            /\ IF current_depth >= args.depth \/ url \in visited_urls
               THEN UNCHANGED <<main, calls>>
               ELSE /\ main' = [pc |-> "fetch", url |-> url, current_depth |-> current_depth]
                    /\ calls' = (Root :> Call(url, args.depth - current_depth, current_depth)) @@ calls
    /\ UNCHANGED <<ticking, saved, args, web, fails_left, visited_urls, save_results, driver, since, fetched>>

\* Lines 149-151 taking the links of the page just crawled, as the comment of
\* line 148 has it, in place of the URLs of visited_urls.
BfsRequeuePageLinks ==
    /\ main.pc = "fetch"
    /\ Root \notin DOMAIN calls
    /\ LET page_links == {urljoin(main.url, web[main.url].links[i].href) :
                             i \in DOMAIN web[main.url].links}
           links_to_crawl ==
               {url \in page_links : is_same_domain(args.start_urls[1], url)}
       IN  queue' = IF links_to_crawl = {} THEN queue
                    ELSE Append(queue, [urls |-> links_to_crawl,
                                        depth |-> main.current_depth + 1])
    /\ main' = [pc |-> "pop", url |-> NoURL, current_depth |-> 0]
    /\ UNCHANGED <<ticking, saved, args, web, fails_left, visited_urls, save_results, calls, driver,
                   since, fetched>>

\* Lines 149-151, once the call of line 147 has returned.
BfsRequeue ==
    /\ main.pc = "fetch"
    /\ Root \notin DOMAIN calls
    /\ LET links_to_crawl ==
               {url \in visited_urls : is_same_domain(args.start_urls[1], url)}
       IN  queue' = IF links_to_crawl = {} THEN queue
                    ELSE Append(queue, [urls |-> links_to_crawl,
                                        depth |-> main.current_depth + 1])
    /\ main' = [pc |-> "pop", url |-> NoURL, current_depth |-> 0]
    /\ UNCHANGED <<ticking, saved, args, web, fails_left, visited_urls, save_results, calls, driver,
                   since, fetched>>

\* Line 142 with the queue empty: bfs_crawl returns and web_crawler calls
\* save_to_file (162).
SaveToFile ==
    /\ main.pc = "pop"
    /\ queue = <<>>
    /\ main' = [main EXCEPT !.pc = "done"]
    /\ saved' = Append(saved, save_results)
    /\ UNCHANGED <<ticking, args, web, fails_left, visited_urls, save_results, queue, calls,
                   driver, since, fetched>>

-----------------------------------------------------------------------------
(* fetch_url *)

Siblings(c) == {d \in DOMAIN calls : Len(d) = Len(c) /\ Front(d) = Front(c)}

\* A task of executor.map is on a worker thread when fewer than max_workers
\* of the tasks submitted before it are still not over: the workers take the
\* tasks in the order of their submission, and each holds its task until it
\* returns.  The threads then run in any order, so a task may reach line 84
\* before a task submitted earlier does.  The call of line 147 runs on the
\* main thread.
WorkerFree(c) ==
    \/ Len(c) = 1
    \/ Cardinality({d \in Siblings(c) : Last(d) < Last(c)}) < max_workers

\* The clock of the time since the last driver.get (92) to a host.
HostClock(host) == [host |-> host, call |-> <<>>]

\* The clock of the time.sleep (134) of an execution.
SleepClock(c) == [host |-> "", call |-> c]

\* A clock starts (again) from 0 now: of the clocks that run it is the last
\* to reach its next whole unit.  With rate_limit 0 no time is measured.
StartClock(clock) ==
    IF args.rate_limit = 0 THEN ticking
    ELSE Append(SelectSeq(ticking, LAMBDA k : k # clock), clock)

\* fetch_url returns (85, 134 or 137): the execution is over.
Return(c) == [d \in DOMAIN calls \ {c} |-> calls[d]]

\* Line 84 without its depth == 0 test.
EnterNoDepthCheck(c) ==
    /\ calls[c].pc = "start"
    /\ WorkerFree(c)
    /\ calls' = IF calls[c].url \in visited_urls \/ is_spider_trap(calls[c].url)
                THEN Return(c)
                ELSE [calls EXCEPT ![c].pc = "get"]
    /\ UNCHANGED <<ticking, saved, args, web, fails_left, visited_urls, save_results, queue, main,
                   driver, since, fetched>>

\* Line 84.
Enter(c) ==
    /\ calls[c].pc = "start"
    /\ WorkerFree(c)
    /\ calls' = IF \/ calls[c].depth = 0
                   \/ calls[c].url \in visited_urls
                   \/ is_spider_trap(calls[c].url)
                THEN Return(c)
                ELSE [calls EXCEPT ![c].pc = "get"]
    /\ UNCHANGED <<ticking, saved, args, web, fails_left, visited_urls, save_results, queue, main,
                   driver, since, fetched>>

\* Line 92 with the exception of driver.get swallowed: fetch_url goes on as if
\* the page had loaded.
GetIgnoreFailure(c) ==
    /\ calls[c].pc = "get"
    /\ LET url == calls[c].url
           host == extract_domain(url)
       IN  /\ fetched' = Append(fetched, [url |-> url, level |-> calls[c].level,
                                          gap |-> since[host],
                                          ok |-> fails_left[url] = 0])
           /\ since' = [since EXCEPT ![host] = 0]
           /\ ticking' = StartClock(HostClock(host))
           /\ fails_left' = [fails_left EXCEPT ![url] = IF @ > 0 THEN @ - 1 ELSE 0]
           /\ driver' = url
           /\ calls' = [calls EXCEPT ![c].pc = "source"]
    /\ UNCHANGED <<saved, args, web, visited_urls, save_results, queue, main>>

\* Line 92: driver.get(url) loads the page in the global driver, or raises
\* (the handler of 136-137 logs the error and fetch_url returns).
Get(c) ==
    /\ calls[c].pc = "get"
    /\ LET url == calls[c].url
           host == extract_domain(url)
       IN  /\ fetched' = Append(fetched, [url |-> url, level |-> calls[c].level,
                                          gap |-> since[host],
                                          ok |-> fails_left[url] = 0])
           /\ since' = [since EXCEPT ![host] = 0]
           /\ ticking' = StartClock(HostClock(host))
           /\ IF fails_left[url] > 0
              THEN /\ fails_left' = [fails_left EXCEPT ![url] = @ - 1]
                   /\ calls' = Return(c)
                   /\ UNCHANGED driver
              ELSE /\ driver' = url
                   /\ calls' = [calls EXCEPT ![c].pc = "source"]
                   /\ UNCHANGED fails_left
    /\ UNCHANGED <<saved, args, web, visited_urls, save_results, queue, main>>

\* Lines 93-94: the page now loaded in the driver is parsed.
Source(c) ==
    /\ calls[c].pc = "source"
    /\ calls' = [calls EXCEPT ![c].soup = driver, ![c].pc = "canonical"]
    /\ UNCHANGED <<ticking, saved, args, web, fails_left, visited_urls, save_results, queue, main,
                   driver, since, fetched>>

\* Lines 97-99.
Canonical(c) ==
    /\ calls[c].pc = "canonical"
    /\ LET canonical_link == web[calls[c].soup].canonical
       IN  calls' = [calls EXCEPT
                       ![c].url = IF canonical_link # NoURL /\ canonical_link \notin visited_urls
                                  THEN canonical_link ELSE @,
                       ![c].pc = "mark"]
    /\ UNCHANGED <<ticking, saved, args, web, fails_left, visited_urls, save_results, queue, main,
                   driver, since, fetched>>

\* fetch_url without line 101: the URL is never put in visited_urls.
MarkNothing(c) ==
    /\ calls[c].pc = "mark"
    /\ calls' = [calls EXCEPT ![c].pc = "extract"]
    /\ UNCHANGED <<ticking, saved, args, web, fails_left, visited_urls, save_results, queue, main, driver,
                   since, fetched>>

\* Line 101.
Mark(c) ==
    /\ calls[c].pc = "mark"
    /\ visited_urls' = visited_urls \cup {calls[c].url}
    /\ calls' = [calls EXCEPT ![c].pc = "extract"]
    /\ UNCHANGED <<ticking, saved, args, web, fails_left, save_results, queue, main, driver, since, fetched>>

\* Lines 113-125 for one anchor: whether its URL is appended to links (126),
\* given what visited_urls holds when line 125 reads it.
Follows(url, link, domain_restriction, visited) ==
    LET full_url == urljoin(url, link.href)
    IN  /\ link.rel # <<"nofollow">>
        /\ ~(domain_restriction /\ ~is_same_domain(url, full_url))
        /\ starts_with_http(full_url)
        /\ full_url \notin visited

\* Lines 104-111: extract_content (which raises on a page whose meta tag has
\* no content) and the append to save_results.
Extract(c) ==
    /\ calls[c].pc = "extract"
    /\ IF ~web[calls[c].soup].meta_ok
       THEN /\ calls' = Return(c)
            /\ UNCHANGED save_results
       ELSE /\ save_results' = Append(save_results,
                                      [url |-> calls[c].url, content |-> calls[c].soup,
                                       level |-> calls[c].level])
            /\ calls' = [calls EXCEPT ![c].pc = "links", ![c].anchor = 1, ![c].links = <<>>]
    /\ UNCHANGED <<ticking, saved, args, web, fails_left, visited_urls, queue, main, driver, since, fetched>>

\* One round of the loop of lines 112-126: the next anchor of the page, with
\* visited_urls as it is now.
FollowLink(c) ==
    /\ calls[c].pc = "links"
    /\ calls[c].anchor <= Len(web[calls[c].soup].links)
    /\ LET link == web[calls[c].soup].links[calls[c].anchor]
       IN  calls' = [calls EXCEPT
                       ![c].links = IF Follows(calls[c].url, link, args.domain_restriction,
                                               visited_urls)
                                    THEN Append(@, urljoin(calls[c].url, link.href))
                                    ELSE @,
                       ![c].anchor = @ + 1]
    /\ UNCHANGED <<ticking, saved, args, web, fails_left, visited_urls, save_results, queue, main,
                   driver, since, fetched>>

\* Lines 129-130, the loop being over: the executor with one task for each
\* link.
Submit(c) ==
    /\ calls[c].pc = "links"
    /\ calls[c].anchor > Len(web[calls[c].soup].links)
    /\ LET links == calls[c].links
           tasks == [d \in {Append(c, k) : k \in 1..Len(links)} |->
                        Call(links[Last(d)], calls[c].depth - 1, calls[c].level + 1)]
       IN  calls' = [calls EXCEPT ![c].pc = "join", ![c].anchor = 0, ![c].links = <<>>]
                    @@ tasks
    /\ UNCHANGED <<ticking, saved, args, web, fails_left, visited_urls, save_results, queue, main,
                   driver, since, fetched>>

Children(c) == {d \in DOMAIN calls : Len(d) = Len(c) + 1 /\ Front(d) = c}

\* The executor shut down without waiting for its tasks: fetch_url goes on to
\* 133-134 while the tasks run.
JoinNoWait(c) ==
    /\ calls[c].pc = "join"
    /\ calls' = IF args.rate_limit # 0
                THEN [calls EXCEPT ![c].pc = "sleep", ![c].timer = args.rate_limit]
                ELSE Return(c)
    /\ ticking' = IF args.rate_limit # 0 THEN StartClock(SleepClock(c)) ELSE ticking
    /\ UNCHANGED <<saved, args, web, fails_left, visited_urls, save_results, queue, main,
                   driver, since, fetched>>

\* The end of the with block of 129-130 (the executor is shut down once all
\* its tasks are over), then 133-134.
Join(c) ==
    /\ calls[c].pc = "join"
    /\ Children(c) = {}
    /\ calls' = IF args.rate_limit # 0
                THEN [calls EXCEPT ![c].pc = "sleep", ![c].timer = args.rate_limit]
                ELSE Return(c)
    /\ ticking' = IF args.rate_limit # 0 THEN StartClock(SleepClock(c)) ELSE ticking
    /\ UNCHANGED <<saved, args, web, fails_left, visited_urls, save_results, queue, main,
                   driver, since, fetched>>

\* time.sleep(rate_limit) is over.
Wake(c) ==
    /\ calls[c].pc = "sleep"
    /\ calls[c].timer = 0
    /\ calls' = Return(c)
    /\ UNCHANGED <<ticking, saved, args, web, fails_left, visited_urls, save_results, queue, main,
                   driver, since, fetched>>

\* Time passes until the clock that is next to reach a whole unit reaches
\* it.  The time since the last driver.get to a host and each time.sleep run
\* from their own starts, so the clocks reach their units one after the
\* other, each one unit after it did the time before.  A clock that has
\* reached rate_limit is no longer followed.
Tick ==
    /\ ticking # <<>>
    /\ LET clock == Head(ticking)
       IN  IF clock.call = <<>>
           THEN /\ since' = [since EXCEPT ![clock.host] = @ + 1]
                /\ ticking' = IF since[clock.host] + 1 < args.rate_limit
                               THEN Append(Tail(ticking), clock) ELSE Tail(ticking)
                /\ UNCHANGED calls
           ELSE /\ calls' = [calls EXCEPT ![clock.call].timer = @ - 1]
                /\ ticking' = IF calls[clock.call].timer > 1
                               THEN Append(Tail(ticking), clock) ELSE Tail(ticking)
                /\ UNCHANGED since
    /\ UNCHANGED <<saved, args, web, fails_left, visited_urls, save_results, queue, main,
                   driver, fetched>>

Next ==
    \/ BfsPop
    \/ BfsRequeue
    \/ SaveToFile
    \/ \E c \in DOMAIN calls : Enter(c)
    \/ \E c \in DOMAIN calls : Get(c)
    \/ \E c \in DOMAIN calls : Source(c)
    \/ \E c \in DOMAIN calls : Canonical(c)
    \/ \E c \in DOMAIN calls : Mark(c)
    \/ \E c \in DOMAIN calls : Extract(c)
    \/ \E c \in DOMAIN calls : FollowLink(c)
    \/ \E c \in DOMAIN calls : Submit(c)
    \/ \E c \in DOMAIN calls : Join(c)
    \/ \E c \in DOMAIN calls : Wake(c)
    \/ Tick

Spec == Init /\ [][Next]_vars

FairSpec == Spec /\ WF_vars(Next)

\* web_crawler is called again with the same arguments in the same process
\* (154-159): save_results and the queue are new, the globals visited_urls
\* (20) and driver (38) are the ones the call before left.
WebCrawlerAgain ==
    /\ main.pc = "done"
    /\ Len(saved) < MaxRuns
    /\ save_results' = <<>>
    /\ queue' = Seeds(args.start_urls)
    /\ main' = [pc |-> "pop", url |-> NoURL, current_depth |-> 0]
    /\ UNCHANGED <<ticking, saved, args, web, fails_left, visited_urls, calls, driver, since, fetched>>

\* A process that calls web_crawler more than once.
RerunSpec == Init /\ [][Next \/ WebCrawlerAgain]_vars

-----------------------------------------------------------------------------
(* What the properties below speak of *)

ResultURLs == {save_results[i].url : i \in DOMAIN save_results}

FetchedURLs == {fetched[i].url : i \in DOMAIN fetched}

TimesRecorded(url) == Cardinality({i \in DOMAIN save_results : save_results[i].url = url})

TimesFetched(url) == Cardinality({i \in DOMAIN fetched : fetched[i].url = url})

SeedHosts == {extract_domain(args.start_urls[i]) : i \in DOMAIN args.start_urls}

\* The run is over: web_crawler has handed save_results to save_to_file.
Terminated == main.pc = "done" /\ queue = <<>> /\ DOMAIN calls = {}

\* The URLs the anchors of a page lead to, resolved against the URL of the
\* page and against its canonical URL.
LinkTargets(w, u) ==
    LET bases == {u} \cup ({w[u].canonical} \ {NoURL})
    IN  {urljoin(b, w[u].links[i].href) : b \in bases, i \in DOMAIN w[u].links} \cap URLS

RECURSIVE ReachableIn(_, _, _)
ReachableIn(w, from, n) ==
    IF n = 0 THEN from
    ELSE ReachableIn(w, from \cup UNION {LinkTargets(w, u) : u \in from}, n - 1)

IsAcyclic(w) ==
    \A u \in URLS : u \notin ReachableIn(w, LinkTargets(w, u), Cardinality(URLS))

-----------------------------------------------------------------------------
(* C1. Dedup invariant: no URL is recorded in save_results more than once, *)
(* whatever the interleaving of the worker threads.  The code breaks it:   *)
(* two executions of fetch_url on one URL both pass the test of line 84    *)
(* before either reaches line 101.                                         *)
C1_DedupInvariant ==
    \A i, j \in DOMAIN save_results :
        i # j => save_results[i].url # save_results[j].url

(* C2. Atomic claim: no URL is handed to driver.get more than once in a    *)
(* run.  The code breaks it: a URL whose fetch raised, or whose page was   *)
(* recorded under its canonical URL, is never put in visited_urls.         *)
C2_FetchedAtMostOnce ==
    \A i, j \in DOMAIN fetched :
        i # j => fetched[i].url # fetched[j].url

(* C3. Depth invariant: with seeds at level 0 and a followed link one      *)
(* level below its parent, every result has level <= depth and no          *)
(* fetch_url execution exists at a level > depth.                          *)
C3_DepthInvariant ==
    /\ \A i \in DOMAIN save_results : save_results[i].level <= args.depth
    /\ \A c \in DOMAIN calls : calls[c].level <= args.depth

\* A fetch_url execution at level = depth (it returns at line 84) while a
\* page one level above is in the results.
C3_Witness ==
    /\ args.depth >= 2
    /\ \E c \in DOMAIN calls : calls[c].level = args.depth
    /\ \E i \in DOMAIN save_results : save_results[i].level = args.depth - 1

(* C4. Domain restriction: with domain_restriction on, every URL fetched   *)
(* or recorded has the host of a seed.  The code breaks it when a page     *)
(* names a canonical URL on another host.                                  *)
C4_DomainRestriction ==
    args.domain_restriction =>
        \A u \in FetchedURLs \cup ResultURLs : extract_domain(u) \in SeedHosts

(* C5. Termination: on an acyclic web every fair run ends: the queue is    *)
(* empty, no fetch_url execution is alive and bfs_crawl has returned.      *)
C5_Termination == IsAcyclic(web) => <>Terminated

\* The end of a run over an acyclic web that fetched below a seed.
C5_Witness ==
    /\ Terminated
    /\ IsAcyclic(web)
    /\ \E i \in DOMAIN fetched : fetched[i].level >= 1

(* C6. Scenario A as stated: seed a.test/, depth = 1, domain restriction   *)
(* on, a.test/ links to a.test/x and b.test/y; the results at the end are  *)
(* exactly a.test/ and a.test/x.                                           *)
IsScenarioA(depth) ==
    /\ web = WebA
    /\ args.start_urls = <<U_A>>
    /\ args.depth = depth
    /\ args.domain_restriction

C6_ScenarioA_AsStated ==
    (IsScenarioA(1) /\ Terminated) => ResultURLs = {U_A, U_AX}

(* C6, amended.  depth counts the levels of pages fetched, the seed's      *)
(* included: with depth = 1 the results at the end are exactly the seed    *)
(* a.test/; with depth = 2 they are exactly a.test/ and a.test/x.          *)
(* b.test/y is in neither.                                                 *)
C6_ScenarioA ==
    /\ (IsScenarioA(1) /\ Terminated) => ResultURLs = {U_A}
    /\ (IsScenarioA(2) /\ Terminated) => ResultURLs = {U_A, U_AX}

\* The end of the run of scenario A with depth = 1: the seed is recorded and
\* fetch_url was called on a.test/x, which it did not fetch.
C6_Witness ==
    /\ IsScenarioA(1)
    /\ Terminated
    /\ U_A \in ResultURLs
    /\ FetchedURLs = {U_A}

(* C7. Pacing: with rate_limit > 0, a driver.get to a host comes at least  *)
(* rate_limit after the driver.get to that host before it.  The code       *)
(* breaks it: it sleeps at the end of fetch_url, after the links of the    *)
(* page were crawled, and its workers do not wait for one another.         *)
C7_Pacing ==
    args.rate_limit > 0 =>
        \A i \in DOMAIN fetched :
            fetched[i].gap = -1 \/ fetched[i].gap >= args.rate_limit

(* C8. Bounded concurrency: at most max_workers fetch_url executions run   *)
(* at a time, on one pool: no second executor is alive beside the first.   *)
(* The code breaks it: every fetched page opens an executor of its own     *)
(* while the executor of its parent is still open.                         *)
C8_BoundedConcurrency ==
    /\ Cardinality({c \in DOMAIN calls : calls[c].pc # "start"}) <= max_workers
    /\ Cardinality({c \in DOMAIN calls : calls[c].pc = "join"}) <= 1

(* C9. Scenario B: seed a.test/, depth = 2, a.test/ links to               *)
(* /loop/loop/loop/; that URL is never fetched and never recorded.  The    *)
(* code breaks it: is_spider_trap is false of that URL.                    *)
C9_SpiderTrapRejected ==
    (web = WebB /\ args.start_urls = <<U_A>> /\ args.depth = 2) =>
        U_LOOP \notin FetchedURLs \cup ResultURLs

(* C10. Scenario C: two seeds that both link to a.test/shared; the page is *)
(* never recorded twice, and at the end of a run that follows links        *)
(* (depth >= 2, the default) it is recorded exactly once.                  *)
IsScenarioC ==
    /\ web = WebC
    /\ args.start_urls = <<U_A, U_TWO>>

C10_SharedOnce ==
    IsScenarioC =>
        /\ TimesRecorded(U_SH) <= 1
        /\ (Terminated /\ args.depth >= DefaultDepth) => TimesRecorded(U_SH) = 1

\* The end of a run of scenario C in which both seeds were fetched and the
\* shared page recorded.
C10_Witness ==
    /\ IsScenarioC
    /\ Terminated
    /\ {U_A, U_TWO} \subseteq FetchedURLs
    /\ U_SH \in ResultURLs

(* C11. Scenario D: the fetch of a.test/f raises on its first two attempts *)
(* and succeeds on the third; at the end of the run the page is recorded   *)
(* exactly once.  The code breaks it: fetch_url calls driver.get once and  *)
(* returns when it raises; the Retry of lines 30-35 is mounted on a        *)
(* session that nothing uses.                                              *)
IsScenarioD ==
    /\ web = WebRetry
    /\ args.start_urls = <<U_A>>
    /\ args.depth >= DefaultDepth

C11_RetryRecordedOnce ==
    (IsScenarioD /\ Terminated) => TimesRecorded(U_F) = 1

(* C12. Fresh state for each run: a second call of web_crawler with the    *)
(* same arguments hands save_to_file the same set of URLs as the first.    *)
(* The code breaks it: visited_urls is a global that is never emptied.     *)
URLsOf(results) == {results[i].url : i \in DOMAIN results}

C12_SameResultsEveryRun ==
    \A i, j \in DOMAIN saved : URLsOf(saved[i]) = URLsOf(saved[j])

(* C13. Canonical identity: a page that names a canonical URL is recorded  *)
(* under that URL only, never also under the URL it was fetched from.  The *)
(* code breaks it: only the canonical URL is put in visited_urls, so the   *)
(* next link to the page fetches it again and records it under its own URL.*)
C13_CanonicalIdentity ==
    \A i, j \in DOMAIN save_results :
        LET page == save_results[i].content
        IN  (/\ save_results[j].content = page
             /\ web[page].canonical # NoURL
             /\ save_results[i].url = web[page].canonical)
            => save_results[j].url = web[page].canonical

(* C14. Fetcher isolation: the page a fetch_url execution parses, and the  *)
(* content it records, is the page of the URL it fetched.  The code breaks *)
(* it: all executions share the one global driver, and another execution   *)
(* can load its page between driver.get (92) and driver.page_source (93).  *)
C14_FetcherIsolation ==
    /\ \A c \in DOMAIN calls :
        calls[c].pc = "canonical" => calls[c].soup = calls[c].url
    /\ \A i \in DOMAIN save_results :
        LET r == save_results[i]
        IN  r.content = r.url \/ web[r.content].canonical = r.url

(* C15. Completeness: when no fetch fails, every page within the depth     *)
(* limit of a seed along followable links is recorded at the end of the    *)
(* run, whatever the order of the workers.  Stated on the web in which     *)
(* a.test/y is one link and two links from the seed, and with the code's   *)
(* own reading of the depth limit (levels 0 .. depth - 1).  The code       *)
(* breaks it, also in runs where every execution parsed its own page: the  *)
(* page reached first along the longer path is marked visited there, with  *)
(* less depth left, and skipped on the shorter path.                       *)
FollowTargets(u) ==
    {v \in {urljoin(u, web[u].links[i].href) :
               i \in {k \in DOMAIN web[u].links :
                         Follows(u, web[u].links[k], args.domain_restriction, {})}} \cap URLS :
        ~is_spider_trap(v)}

RECURSIVE WithinLinks(_, _)
WithinLinks(from, n) ==
    IF n = 0 THEN from
    ELSE WithinLinks(from \cup UNION {FollowTargets(u) : u \in from}, n - 1)

C15_Completeness ==
    (/\ web = WebH
     /\ args.depth >= 1
     /\ Terminated
     /\ \A i \in DOMAIN fetched : fetched[i].ok
     /\ \A i \in DOMAIN save_results : save_results[i].content = save_results[i].url)
    => WithinLinks(Range(args.start_urls), args.depth - 1) \subseteq ResultURLs

(* C16. Fetch failure: a URL whose every driver.get raised has no result,  *)
(* its page is parsed by no execution, and the URLs only its page links to *)
(* are not fetched; the rest of the crawl goes on: at the end of the run   *)
(* over the web with the failing a.test/f, the seed a.test/two that links  *)
(* to it and its sibling a.test/p are recorded.                            *)
NeverLoaded(u) ==
    /\ u \in FetchedURLs
    /\ \A i \in DOMAIN fetched : fetched[i].url = u => ~fetched[i].ok

OnlyLinkedFrom(u) ==
    {v \in LinkTargets(web, u) \ Range(args.start_urls) :
        \A w \in URLS \ {u} : v \notin LinkTargets(web, w)}

C16_FetchFailure ==
    /\ \A u \in URLS :
        NeverLoaded(u) =>
            /\ u \notin ResultURLs
            /\ \A i \in DOMAIN save_results : save_results[i].content # u
            /\ \A c \in DOMAIN calls : calls[c].soup # u
            /\ OnlyLinkedFrom(u) \cap FetchedURLs = {}
    /\ (web = WebE /\ args.depth >= DefaultDepth /\ Terminated)
        => {U_TWO, U_P} \subseteq ResultURLs

\* The end of a run in which the one fetch of a.test/f raised, its sibling
\* a.test/p was recorded, and the page a.test/f links to was left alone.
C16_Witness ==
    /\ web = WebE
    /\ Terminated
    /\ NeverLoaded(U_F)
    /\ OnlyLinkedFrom(U_F) = {U_SH}
    /\ U_P \in ResultURLs

(* C17. Results are final at hand-off: when web_crawler has called         *)
(* save_to_file no fetch_url execution is alive, and save_results is still *)
(* the list that was handed over.                                          *)
C17_ResultsFinal ==
    main.pc = "done" =>
        /\ DOMAIN calls = {}
        /\ saved[Len(saved)] = save_results

\* The end of a run in which worker threads appended results.
C17_Witness ==
    /\ main.pc = "done"
    /\ Cardinality({i \in DOMAIN save_results : save_results[i].level >= 1}) >= 2

(* C18. nofollow: a URL that every link to it marks nofollow, alone or     *)
(* among other rel values, is never fetched.  The code breaks it: line 117 *)
(* compares the rel list with ['nofollow'], so rel="nofollow noopener" is  *)
(* followed.                                                               *)
LinksTo(u) ==
    {l \in UNION {Range(web[w].links) : w \in URLS} :
        \E w \in URLS : l \in Range(web[w].links) /\ u \in {urljoin(w, l.href),
            urljoin(IF web[w].canonical = NoURL THEN w ELSE web[w].canonical, l.href)}}

NofollowOnly(u) ==
    /\ u \notin Range(args.start_urls)
    /\ LinksTo(u) # {}
    /\ \A l \in LinksTo(u) : "nofollow" \in Range(l.rel)

C18_Nofollow ==
    \A u \in URLS : NofollowOnly(u) => u \notin FetchedURLs

(* C19. The outer queue of bfs_crawl fetches nothing beyond the seeds:     *)
(* every entry appended by lines 149-151 holds URLs of visited_urls only   *)
(* (so line 144 skips them), fetch_url is called from bfs_crawl for seeds  *)
(* at depth 0 only, and the queue drains: the run ends.                    *)
QueueSkipsAppended ==
    /\ \A k \in DOMAIN queue : queue[k].depth >= 1 => queue[k].urls \subseteq visited_urls
    /\ main.pc = "fetch" =>
        /\ main.current_depth = 0
        /\ main.url \in Range(args.start_urls)
    /\ \A c \in DOMAIN calls : Len(c) = 1 => calls[c].level = 0

C19_OuterQueue == []QueueSkipsAppended /\ <>Terminated

\* The end of a run in which bfs_crawl popped and skipped an appended entry.
C19_Witness ==
    /\ Terminated
    /\ visited_urls # {}
    /\ \E u \in visited_urls : is_same_domain(args.start_urls[1], u)

(* C20. visited_urls and the results agree: whenever no fetch_url          *)
(* execution is alive, the URLs of visited_urls are those of save_results. *)
(* The code breaks it: extract_content (104) can raise after line 101 has  *)
(* marked the URL, and the handler of 136 records nothing.                 *)
C20_VisitedMatchesResults ==
    DOMAIN calls = {} => visited_urls = ResultURLs

====
